---- MODULE Spec2Model ----
(***************************************************************************)
(* Model of the cash-flow pipeline of ai-cashflow-coo:                     *)
(*   engine/forecast.py  forecast_cashflow (day-by-day simulation)         *)
(*   engine/loader.py    load_transactions (column detection, cleaning)    *)
(*   engine/metrics.py   calculate_business_metrics                        *)
(*   engine/cashflow.py  calculate_cash_metrics                            *)
(*   app.py              the script's normalisation, sign guard and core   *)
(*                       calculations                                      *)
(*                                                                         *)
(* Money is a Python float in the source.  The model keeps the float       *)
(* format but narrows the mantissa from 53 bits to MantBits bits: every    *)
(* value is an integer-valued float, integers below 2^MantBits are exact,  *)
(* larger ones are rounded to the nearest representable value (ties to     *)
(* even), as IEEE-754 addition, subtraction and multiplication do.         *)
(***************************************************************************)
EXTENDS Integers, Sequences, FiniteSets, TLC

\* ------------------------------------------------------------------ bounds
\* Width of the float mantissa in the model (53 in CPython).
MantBits == 14
\* Largest forecast horizon (`days`) drawn.
MaxDays == 5
\* Largest number of rows in an uploaded table.
MaxRows == 2

\* A Python assignment: e is evaluated once and the name is bound to its
\* value in F.
Let(e, F(_)) == CHOOSE y \in {F(x) : x \in {e}} : TRUE

\* --------------------------------------------------------- float arithmetic
RECURSIVE Pow2(_)
Pow2(n) == IF n = 0 THEN 1 ELSE 2 * Pow2(n - 1)

Abs(x) == IF x < 0 THEN -x ELSE x

\* Spacing of the representable values around magnitude a: the least power of
\* two s with a \div s < 2^MantBits.
RECURSIVE Ulp(_, _)
Ulp(a, s) == IF a \div s < Pow2(MantBits) THEN s ELSE Ulp(a, 2 * s)

\* The multiple of the spacing s nearest to a >= 0, ties to the even multiple.
RoundToSpacing(a, s) ==
    LET m   == a \div s
        rem == a - m * s
    IN  IF (2 * rem > s) \/ (2 * rem = s /\ m % 2 = 1) THEN (m + 1) * s ELSE m * s

\* Round-to-nearest, ties-to-even, of the exact integer x.
FloatRound(x) ==
    Let(x, LAMBDA v :
        Let(Ulp(Abs(v), 1), LAMBDA s :
            IF v < 0 THEN -RoundToSpacing(-v, s) ELSE RoundToSpacing(v, s)))

FAdd(x, y) == FloatRound(x + y)
FSub(x, y) == FloatRound(x - y)

\* ---------------------------------------------------------- forecast inputs
\* return_rate is counted in halves (0, 0.5, 1.0): dyadic rates, so that
\* 1 - return_rate is exact and the product with an even sales figure is an
\* integer before rounding.
CashTodayValues == {-3000, 0, 9000, 10000, Pow2(MantBits)}
SalesValues     == {0, 2, 4000}
AdSpendValues   == {0, 1, 2000}
FixedCostValues == {0, 1000}
DelayValues     == {0, 1, 3}
ReturnRates     == {0, 1, 2}
StartDates      == {31}

ForecastInputs ==
    [ cash_today : CashTodayValues, start_date : StartDates, days : 0..MaxDays,
      avg_daily_sales : SalesValues, avg_daily_ad_spend : AdSpendValues,
      avg_daily_fixed_cost : FixedCostValues, cod_delay_days : DelayValues,
      return_rate : ReturnRates ]

\* ------------------------------------------------------------------ strings
\* A Python str is a tuple of one-character strings.
UpperLetters == <<"A","B","C","D","E","F","G","H","I","J","K","L","M",
                  "N","O","P","Q","R","S","T","U","V","W","X","Y","Z">>
LowerLetters == <<"a","b","c","d","e","f","g","h","i","j","k","l","m",
                  "n","o","p","q","r","s","t","u","v","w","x","y","z">>

LowerChar(c) ==
    IF \E i \in 1..Len(UpperLetters) : UpperLetters[i] = c
    THEN LowerLetters[CHOOSE i \in 1..Len(UpperLetters) : UpperLetters[i] = c]
    ELSE c

\* str.lower()
LowerStr(s) == Let(s, LAMBDA v : [i \in 1..Len(v) |-> LowerChar(v[i])])

\* str.strip(): the text between the first and the last non-blank character
Strip(s) ==
    Let(s, LAMBDA v :
        Let({i \in 1..Len(v) : v[i] # " "}, LAMBDA solid :
            IF solid = {} THEN << >>
            ELSE SubSeq(v, CHOOSE i \in solid : \A j \in solid : i <= j,
                           CHOOSE i \in solid : \A j \in solid : j <= i)))

\* k in s   (substring test, k non-empty)
Contains(s, k) ==
    Let(s, LAMBDA v :
        \E i \in 1..(Len(v) - Len(k) + 1) : SubSeq(v, i, i + Len(k) - 1) = k)

\* any(k in s for k in ks)
ContainsAny(s, ks) == Let(s, LAMBDA v : \E k \in ks : Contains(v, k))

DigitChars == <<"0","1","2","3","4","5","6","7","8","9">>
IsDigit(c) == \E i \in 1..Len(DigitChars) : DigitChars[i] = c
DigitVal(c) == (CHOOSE i \in 1..Len(DigitChars) : DigitChars[i] = c) - 1

\* the value of the first k digits of s
RECURSIVE DigitsValueTo(_, _)
DigitsValueTo(s, k) ==
    IF k = 0 THEN 0 ELSE 10 * DigitsValueTo(s, k - 1) + DigitVal(s[k])
DigitsValue(s) == Let(s, LAMBDA v : DigitsValueTo(v, Len(v)))

\* str(n) of an integer-valued number
RECURSIVE NatToStr(_)
NatToStr(n) ==
    IF n < 10 THEN <<DigitChars[n + 1]>>
    ELSE Append(NatToStr(n \div 10), DigitChars[(n % 10) + 1])
NumToStr(n) == Let(n, LAMBDA v : IF v < 0 THEN <<"-">> \o NatToStr(-v) ELSE NatToStr(v))

\* The literals float() accepts among strings of digits, "." and "-": an
\* optional leading minus, digits with at most one point, at least one digit.
Unsigned(s) == IF s # << >> /\ Head(s) = "-" THEN Tail(s) ELSE s
IsFloatLiteral(s) ==
    Let(Unsigned(s), LAMBDA b :
        /\ \A i \in 1..Len(b) : IsDigit(b[i]) \/ b[i] = "."
        /\ Cardinality({i \in 1..Len(b) : b[i] = "."}) <= 1
        /\ \E i \in 1..Len(b) : IsDigit(b[i]))

\* float(s) of such a literal.  The literals drawn have no fractional digits
\* other than zeros, so the value is the integer part, rounded to the format.
WholePart(b) ==
    IF \E i \in 1..Len(b) : b[i] = "."
    THEN SubSeq(b, 1, (CHOOSE i \in 1..Len(b) : b[i] = ".") - 1)
    ELSE b
FloatValue(s) ==
    Let(s, LAMBDA t :
        Let(FloatRound(DigitsValue(WholePart(Unsigned(t)))), LAMBDA v :
            IF t # << >> /\ Head(t) = "-" THEN -v ELSE v))

\* -------------------------------------------------------------------- cells
\* A cell of a DataFrame is a str, a number, or NaN / NaT.
Str(s) == [s |-> s]
Num(v) == [n |-> v]
NaN    == [nan |-> TRUE]
IsStr(c) == DOMAIN c = {"s"}
IsNum(c) == DOMAIN c = {"n"}
\* pd.isna
IsNa(c)  == DOMAIN c = {"nan"}

\* str(val)
StrOf(c) == IF IsStr(c) THEN c.s ELSE IF IsNum(c) THEN NumToStr(c.n) ELSE <<"n","a","n">>

\* --------------------------------------------------------------- DataFrame
\* columns: the labels in order; data: the rows, each a tuple of cells
\* aligned with columns.
EmptyFrame == [columns |-> << >>, data |-> << >>]

NRows(df) == Len(df.data)
HasCol(df, c) == \E i \in 1..Len(df.columns) : df.columns[i] = c
NCol(df, c) == Cardinality({i \in 1..Len(df.columns) : df.columns[i] = c})
ColIndex(df, c) ==
    CHOOSE i \in 1..Len(df.columns) :
        df.columns[i] = c /\ \A j \in 1..(i - 1) : df.columns[j] # c
\* df[c]
Col(df, c) == [r \in 1..NRows(df) |-> df.data[r][ColIndex(df, c)]]
\* df[c] = vals
SetCol(df, c, vals) ==
    Let(vals, LAMBDA v :
        IF HasCol(df, c)
        THEN [df EXCEPT !.data =
                [r \in 1..NRows(df) |-> [@[r] EXCEPT ![ColIndex(df, c)] = v[r]]]]
        ELSE [columns |-> Append(df.columns, c),
              data |-> [r \in 1..NRows(df) |-> Append(df.data[r], v[r])]])
\* df.rename(columns={old: new})
Rename(df, old, new) ==
    [df EXCEPT !.columns =
        [i \in 1..Len(df.columns) |-> IF @[i] = old THEN new ELSE @[i]]]
\* df.dropna(subset=cs)
DropNa(df, cs) ==
    Let(df, LAMBDA d :
        [d EXCEPT !.data =
            SelectSeq(@, LAMBDA row : \A c \in cs : ~IsNa(row[ColIndex(d, c)]))])
\* the first label satisfying P, as a one-element tuple, or << >>
FirstCol(df, P(_)) ==
    Let({i \in 1..Len(df.columns) : P(df.columns[i])}, LAMBDA hits :
        IF hits = {} THEN << >>
        ELSE <<df.columns[CHOOSE i \in hits : \A j \in hits : i <= j]>>)

\* df.columns = [c.lower().strip() for c in df.columns]
StandardizeHeaders(df) ==
    [df EXCEPT !.columns = [i \in 1..Len(df.columns) |-> Strip(LowerStr(@[i]))]]

\* pd.read_csv: an empty field is NaN; a column whose fields are all numeric
\* or empty becomes a numeric column, any other column keeps its strings.
ReadCsv(t) ==
    LET numeric(j) == \A r \in 1..Len(t.data) :
                         t.data[r][j] = << >> \/ IsFloatLiteral(t.data[r][j])
        cell(r, j) == IF t.data[r][j] = << >> THEN NaN
                      ELSE IF numeric(j) THEN Num(FloatValue(t.data[r][j]))
                      ELSE Str(t.data[r][j])
    IN  [columns |-> t.columns,
         data |-> [r \in 1..Len(t.data) |->
                      [j \in 1..Len(t.columns) |-> cell(r, j)]]]

\* pd.to_datetime(col, errors="coerce") on one cell: the calendar day as an
\* ordinal (2025-01-01 is day 1), NaT for anything that is not a date.
ToDatetime(c) ==
    Let(c, LAMBDA v :
        IF IsNum(v) \/ IsNa(v) THEN v
        ELSE IF v.s = <<"2","0","2","5","-","0","1","-","0","1">> THEN Num(1)
        ELSE IF v.s = <<"2","0","2","5","-","0","1","-","0","2">> THEN Num(2)
        ELSE IF v.s = <<"2","0","2","5","-","0","1","-","0","5">> THEN Num(5)
        ELSE NaN)

\* pd.to_numeric(col, errors="coerce") on one cell
ToNumeric(c) ==
    Let(c, LAMBDA v :
        IF IsNum(v) \/ IsNa(v) THEN v
        ELSE IF IsFloatLiteral(v.s) THEN Num(FloatValue(v.s))
        ELSE NaN)

\* ------------------------------------------------------------ input tables
\* An uploaded file: header texts and rows of field texts, as in the CSV.
SeqsUpTo(S, n) == UNION {[1..k -> S] : k \in 0..n}

\* the members of seq at the positions in M, in order
RECURSIVE PickFrom(_, _, _)
PickFrom(seq, M, i) ==
    IF i > Len(seq) THEN << >>
    ELSE (IF i \in M THEN <<seq[i]>> ELSE << >>) \o PickFrom(seq, M, i + 1)
Pick(seq, M) == PickFrom(seq, M, 1)

DateTexts == {<<"2","0","2","5","-","0","1","-","0","1">>, <<"2","0","2","5","-","0","1","-","0","2">>, <<"?","?">>}

\* A signed ledger: date, amount, description.
LedgerHeaders == <<<<"D","a","t","e">>, <<" ","A","m","o","u","n","t"," ">>, <<"D","e","s","c","r","i","p","t","i","o","n">>>>
LedgerTxns ==
    { <<<<"4","2","0","0","0">>, <<"S","a","l","e","s">>>>, <<<<"1","3","0","0","0">>, <<"S","a","l","e","s">>>>, <<<<"$","1",",","2","0","0">>, <<"S","a","l","e","s">>>>,
      <<<<"-","1","5","0","0","0">>, <<"F","a","c","e","b","o","o","k"," ","A","d","s">>>>, <<<<"-","3","0","0","0">>, <<"R","e","n","t">>>>, <<<<"-","5","0","0">>, <<"M","i","s","c">>>>,
      <<<<"3","0","0">>, <<"R","e","n","t"," ","r","e","f","u","n","d">>>>, <<<<"a","b","c">>, <<"M","i","s","c">>>> }
LedgerRows == { <<d, t[1], t[2]>> : d \in DateTexts, t \in LedgerTxns }
LedgerTables ==
    { [columns |-> LedgerHeaders, data |-> rs] : rs \in SeqsUpTo(LedgerRows, MaxRows) }

\* The sample layout of app.py:53-58: date, amount, type, description.
TypedHeaders == <<<<"d","a","t","e">>, <<"a","m","o","u","n","t">>, <<"t","y","p","e">>, <<"d","e","s","c","r","i","p","t","i","o","n">>>>
TypedTxns ==
    { <<<<"4","2","0","0","0">>, <<"I","n","f","l","o","w">>, <<"S","a","l","e","s">>>>, <<<<"1","5","0","0","0">>, <<"O","u","t","f","l","o","w">>, <<"F","a","c","e","b","o","o","k"," ","A","d","s">>>>,
      <<<<"-","1","5","0","0","0">>, <<"O","u","t","f","l","o","w">>, <<"F","a","c","e","b","o","o","k"," ","A","d","s">>>>, <<<<"5","0","0","0">>, <<"D","R">>, <<"R","e","n","t">>>> }
TypedRows ==
    { <<d, t[1], t[2], t[3]>> : d \in {<<"2","0","2","5","-","0","1","-","0","1">>, <<"2","0","2","5","-","0","1","-","0","2">>}, t \in TypedTxns }
TypedTables ==
    { [columns |-> TypedHeaders, data |-> rs] : rs \in SeqsUpTo(TypedRows, MaxRows) }

\* A bank statement: date, debit, credit, narration.
BankHeaders == <<<<"T","x","n"," ","D","a","t","e">>, <<"D","e","b","i","t">>, <<"C","r","e","d","i","t">>, <<"N","a","r","r","a","t","i","o","n">>>>
BankTxns ==
    { <<<< >>, <<"4","2","0","0","0">>, <<"S","a","l","e","s">>>>, <<<<"1","5",",","0","0","0">>, << >>, <<"F","a","c","e","b","o","o","k"," ","A","d","s">>>>,
      <<<<"5","0","0">>, << >>, <<"M","i","s","c">>>> }
BankRows == { <<d, t[1], t[2], t[3]>> : d \in DateTexts, t \in BankTxns }
BankTables ==
    { [columns |-> BankHeaders, data |-> rs] : rs \in SeqsUpTo(BankRows, MaxRows) }

\* One-row tables over every combination of a date header, a description
\* header and one or more of the seven money headers, each money column with
\* its own value.
DateHeaderOptions == { << >>, <<<<"d","a","t","e">>>>, <<<<"O","r","d","e","r"," ","D","a","t","e">>>>, <<<<"T","i","m","e","s","t","a","m","p">>>> }
DescHeaderOptions == { << >>, <<<<"d","e","s","c","r","i","p","t","i","o","n">>>>, <<<<"I","t","e","m"," ","N","a","m","e">>>>, <<<<"n","a","r","r","a","t","i","o","n">>>> }
MoneyHeaders ==
    <<<<"a","m","o","u","n","t">>, <<"d","e","b","i","t">>, <<"c","r","e","d","i","t">>, <<"i","n","f","l","o","w">>, <<"o","u","t","f","l","o","w">>, <<"d","e","p","o","s","i","t","s">>, <<"w","i","t","h","d","r","a","w","a","l","s">>>>
MoneyTexts == <<<<"1","0","0">>, <<"3">>, <<"2","0">>, <<"7">>, <<"2">>, <<"5","0">>, <<"9">>>>
SchemaTables ==
    { [columns |-> dh \o sh \o Pick(MoneyHeaders, M),
       data |-> << (IF dh = << >> THEN << >> ELSE <<<<"2","0","2","5","-","0","1","-","0","1">>>>)
                   \o (IF sh = << >> THEN << >> ELSE <<<<"S","a","l","e","s">>>>)
                   \o Pick(MoneyTexts, M) >>] :
      dh \in DateHeaderOptions, sh \in DescHeaderOptions,
      M \in (SUBSET (1..Len(MoneyHeaders))) \ {{}} }

Tables == LedgerTables \cup TypedTables \cup BankTables \cup SchemaTables

\* ----------------------------------------------------------------- numbers
\* int(a / b) for b > 0: truncation toward zero
TruncDiv(a, b) == Let(a, LAMBDA n : IF n >= 0 THEN n \div b ELSE -((-n) \div b))

\* round(a / b) for b > 0: nearest integer, ties to even
RoundHalfEven(a, b) ==
    Let(a, LAMBDA n :
        Let(n \div b, LAMBDA q :
            IF 2 * (n - q * b) < b THEN q
            ELSE IF 2 * (n - q * b) > b THEN q + 1
            ELSE IF q % 2 = 0 THEN q ELSE q + 1))

\* A quotient the source leaves as a float is kept as the pair it was
\* computed from, num / den with den > 0.
Ratio(n, d) == [num |-> n, den |-> d]

\* Series.sum(): the float sum, left to right
RECURSIVE FSumTo(_, _)
FSumTo(s, k) == IF k = 0 THEN 0 ELSE FAdd(FSumTo(s, k - 1), s[k])
FSum(s) == Let(s, LAMBDA v : FSumTo(v, Len(v)))

\* the members of a finite set of integers, ascending
RECURSIVE AscendingOf(_)
AscendingOf(S) ==
    IF S = {} THEN << >>
    ELSE Let(CHOOSE x \in S : \A y \in S : x <= y, LAMBDA m :
             <<m>> \o Let(S \ {m}, AscendingOf))
Ascending(S) == Let(S, AscendingOf)

\* the numbers of a numeric column
Values(cells) == Let(cells, LAMBDA v : [i \in 1..Len(v) |-> v[i].n])
Amounts(df) == Values(Col(df, <<"a","m","o","u","n","t">>))
Dates(df) == Values(Col(df, <<"d","a","t","e">>))
\* the amounts of the rows at the positions in R, in row order
AmountsAt(df, R) == Let(Amounts(df), LAMBDA a : Let(R, LAMBDA S : Pick(a, S)))
AbsAll(s) == Let(s, LAMBDA v : [i \in 1..Len(v) |-> Abs(v[i])])
RowSet(df) == 1..NRows(df)

VARIABLES
    pc,            \* which operation is running and where it stands
    fin,           \* forecast_cashflow: its arguments
    day,           \* forecast_cashflow: loop variable
    current_cash,  \* forecast_cashflow: carried balance
    rows,          \* forecast_cashflow: list of row dicts
    forecast_df,   \* forecast_cashflow: returned DataFrame (sequence of rows)
    table,         \* the uploaded file
    caller_df,     \* the DataFrame the caller holds
    result,        \* what the last operation returned or displayed
    metrics,       \* generate_decisions: the dict it is given
    decisions      \* generate_decisions: the dict it returns

fvars == <<fin, day, current_cash, rows, forecast_df>>
lvars == <<table, caller_df, result>>
dvars == <<metrics, decisions>>
vars == <<pc, fin, day, current_cash, rows, forecast_df, table, caller_df, result,
          metrics, decisions>>

NoInputs == [ cash_today |-> 0, start_date |-> 0, days |-> 0, avg_daily_sales |-> 0,
              avg_daily_ad_spend |-> 0, avg_daily_fixed_cost |-> 0,
              cod_delay_days |-> 0, return_rate |-> 0 ]

NoResult == [kind |-> "none"]
NoDecisions == [risks |-> << >>, actions |-> << >>]

\* main.py:11 : the starting cash the caller holds besides the CSV history
OPENING_CASH == 200000

\* ------------------------------------------------------- forecast_cashflow
\* forecast.py:25-28
InflowOfDeferred(f, d) ==
    IF d < f.cod_delay_days THEN 0
    ELSE FloatRound((f.avg_daily_sales * (2 - f.return_rate)) \div 2)

InflowOf(f, d) ==
    IF d <= f.cod_delay_days THEN 0
    ELSE FloatRound((f.avg_daily_sales * (2 - f.return_rate)) \div 2)

\* forecast.py:31
OutflowOf(f) == FAdd(f.avg_daily_ad_spend, f.avg_daily_fixed_cost)

\* forecast.py:33
ClosingCashAdded(cur, inflow, outflow) == FAdd(FAdd(cur, inflow), outflow)

ClosingCash(cur, inflow, outflow) == FSub(FAdd(cur, inflow), outflow)

\* forecast.py:43 : the balance carried into the next iteration
CarriedOpening(cur, closing) == cur

Carried(cur, closing) == closing

\* forecast.py:35-41
ForecastRow(f, d, cur) ==
    LET inflow  == InflowOf(f, d)
        outflow == OutflowOf(f)
    IN  [ date |-> f.start_date + d, opening_cash |-> cur, inflows |-> inflow,
          outflows |-> outflow, closing_cash |-> ClosingCash(cur, inflow, outflow) ]

\* forecast.py:18-19 : the call binds the arguments and initialises the loop
ForecastCall ==
    /\ pc = "idle"
    /\ \E f \in ForecastInputs :
          /\ fin' = f
          /\ current_cash' = f.cash_today
    /\ day' = 1
    /\ rows' = << >>
    /\ pc' = "forecast_loop"
    /\ UNCHANGED <<forecast_df, lvars, dvars>>

\* forecast.py:21-43 : one iteration of the loop
ForecastStep ==
    /\ pc = "forecast_loop"
    /\ day <= fin.days
    /\ LET row == ForecastRow(fin, day, current_cash)
       IN  /\ rows' = Append(rows, row)
           /\ current_cash' = Carried(current_cash, row.closing_cash)
    /\ day' = day + 1
    /\ UNCHANGED <<pc, fin, forecast_df, lvars, dvars>>

\* forecast.py:45
ForecastReturn ==
    /\ pc = "forecast_loop"
    /\ day > fin.days
    /\ forecast_df' = rows
    /\ pc' = "forecast_done"
    /\ UNCHANGED <<fin, day, current_cash, rows, lvars, dvars>>

\* ------------------------------------------------- loader.load_transactions
\* loader.py:16-20
CleanCurrency(val) ==
    IF IsNa(val) \/ val = Str(<< >>) THEN 0
    ELSE Let(SelectSeq(StrOf(val), LAMBDA ch : IsDigit(ch) \/ ch = "." \/ ch = "-"),
             LAMBDA cleaned :
                 IF IsFloatLiteral(cleaned) THEN FloatValue(cleaned) ELSE 0)

IsDateLabel(c) == Contains(c, <<"d","a","t","e">>) \/ Contains(c, <<"t","i","m","e">>)
IsDescLabel(c) == Contains(c, <<"d","e","s","c">>) \/ Contains(c, <<"a","c","t","i","v","i","t","y">>) \/ Contains(c, <<"n","a","m","e">>)

\* loader.py:24-25
DetectDate(df) ==
    LET date_cols == FirstCol(df, IsDateLabel)
    IN  IF date_cols # << >> THEN Rename(df, date_cols[1], <<"d","a","t","e">>) ELSE df

\* loader.py:28-29
DetectDescription(df) ==
    LET desc_cols == FirstCol(df, IsDescLabel)
    IN  IF desc_cols # << >> THEN Rename(df, desc_cols[1], <<"d","e","s","c","r","i","p","t","i","o","n">>) ELSE df

\* loader.py:32-39 : which representation the amount is built from
AmountSourceDepositsFirst(df) ==
    IF HasCol(df, <<"a","m","o","u","n","t">>) THEN "amount"
    ELSE IF HasCol(df, <<"d","e","b","i","t">>) /\ HasCol(df, <<"c","r","e","d","i","t">>) THEN "debit_credit"
    ELSE IF HasCol(df, <<"d","e","p","o","s","i","t","s">>) /\ HasCol(df, <<"w","i","t","h","d","r","a","w","a","l","s">>)
         THEN "deposits_withdrawals"
    ELSE IF HasCol(df, <<"i","n","f","l","o","w">>) /\ HasCol(df, <<"o","u","t","f","l","o","w">>) THEN "inflow_outflow"
    ELSE "none"

AmountSource(df) ==
    IF HasCol(df, <<"a","m","o","u","n","t">>) THEN "amount"
    ELSE IF HasCol(df, <<"d","e","b","i","t">>) /\ HasCol(df, <<"c","r","e","d","i","t">>) THEN "debit_credit"
    ELSE IF HasCol(df, <<"i","n","f","l","o","w">>) /\ HasCol(df, <<"o","u","t","f","l","o","w">>) THEN "inflow_outflow"
    ELSE IF HasCol(df, <<"d","e","p","o","s","i","t","s">>) /\ HasCol(df, <<"w","i","t","h","d","r","a","w","a","l","s">>)
         THEN "deposits_withdrawals"
    ELSE "none"

\* a.apply(clean_currency) - b.apply(clean_currency)
CleanDiff(df, plus, minus) ==
    [r \in 1..NRows(df) |->
        Num(FSub(CleanCurrency(Col(df, plus)[r]), CleanCurrency(Col(df, minus)[r])))]

\* loader.py:32-39
DetectAmount(df) ==
    LET src == AmountSource(df)
    IN  IF src = "amount"
        THEN SetCol(df, <<"a","m","o","u","n","t">>,
                    [r \in 1..NRows(df) |-> Num(CleanCurrency(Col(df, <<"a","m","o","u","n","t">>)[r]))])
        ELSE IF src = "debit_credit"
        THEN SetCol(df, <<"a","m","o","u","n","t">>, CleanDiff(df, <<"c","r","e","d","i","t">>, <<"d","e","b","i","t">>))
        ELSE IF src = "inflow_outflow"
        THEN SetCol(df, <<"a","m","o","u","n","t">>, CleanDiff(df, <<"i","n","f","l","o","w">>, <<"o","u","t","f","l","o","w">>))
        ELSE IF src = "deposits_withdrawals"
        THEN SetCol(df, <<"a","m","o","u","n","t">>, CleanDiff(df, <<"d","e","p","o","s","i","t","s">>, <<"w","i","t","h","d","r","a","w","a","l","s">>))
        ELSE df

\* The frame just before loader.py:42.
Detected(t) ==
    Let(ReadCsv(t), LAMBDA read :
        Let(StandardizeHeaders(read), LAMBDA cleaned :
            Let(DetectDate(cleaned), LAMBDA dated :
                Let(DetectDescription(dated), DetectAmount))))

\* loader.py:42-43 raise when the label is missing (KeyError) or, after a
\* rename onto an existing label, names two columns.
LoadRaises(df) == NCol(df, <<"d","a","t","e">>) # 1 \/ NCol(df, <<"a","m","o","u","n","t">>) # 1

\* loader.py:4-45
LoadTransactions(t) ==
    Let(Detected(t), LAMBDA df :
        IF LoadRaises(df) THEN EmptyFrame
        ELSE DropNa(SetCol(df, <<"d","a","t","e">>,
                           [r \in 1..NRows(df) |-> ToDatetime(Col(df, <<"d","a","t","e">>)[r])]),
                    {<<"d","a","t","e">>, <<"a","m","o","u","n","t">>}))

\* main.py:19 : the caller loads a file
Load ==
    /\ pc = "idle"
    /\ \E t \in Tables :
          /\ table' = t
          /\ caller_df' = LoadTransactions(t)
    /\ pc' = "loaded"
    /\ UNCHANGED <<fvars, dvars, result>>

\* ------------------------------------------------------------------ app.py
Raised(error, what) == [kind |-> "exception", error |-> error, what |-> what]

\* app.py:136-140
AppDetectDate(df) ==
    IF HasCol(df, <<"d","a","t","e">>) THEN df
    ELSE LET c == FirstCol(df, LAMBDA x : Contains(x, <<"d","a","t","e">>))
         IN  IF c = << >> THEN df ELSE SetCol(df, <<"d","a","t","e">>, Col(df, c[1]))

\* app.py:143-150
DescriptionAliases == <<<<"a","c","t","i","v","i","t","y">>, <<"n","a","r","r","a","t","i","o","n">>, <<"c","o","m","m","e","n","t">>, <<"r","e","m","a","r","k","s">>, <<"p","a","r","t","i","c","u","l","a","r","s">>>>
AppDetectDescription(df) ==
    IF HasCol(df, <<"d","e","s","c","r","i","p","t","i","o","n">>) THEN df
    ELSE LET hits == {i \in 1..Len(DescriptionAliases) : HasCol(df, DescriptionAliases[i])}
         IN  IF hits = {}
             THEN SetCol(df, <<"d","e","s","c","r","i","p","t","i","o","n">>, [r \in RowSet(df) |-> Str(<<"T","r","a","n","s","a","c","t","i","o","n">>)])
             ELSE SetCol(df, <<"d","e","s","c","r","i","p","t","i","o","n">>,
                         Col(df, DescriptionAliases[CHOOSE i \in hits : \A j \in hits : i <= j]))

\* pd.to_numeric(col, errors="coerce").fillna(0)
NumericOrZero(cells) ==
    Let(cells, LAMBDA v :
        [r \in 1..Len(v) |-> IF IsNa(ToNumeric(v[r])) THEN Num(0) ELSE ToNumeric(v[r])])

\* app.py:153-160 : << >> when the step raises
AppBuildAmount(df) ==
    IF HasCol(df, <<"a","m","o","u","n","t">>) THEN <<df>>
    ELSE LET debit_col  == FirstCol(df, LAMBDA x : Contains(x, <<"d","e","b","i","t">>))
             credit_col == FirstCol(df, LAMBDA x : Contains(x, <<"c","r","e","d","i","t">>))
         IN  IF debit_col = << >> /\ credit_col = << >> THEN <<df>>
             ELSE IF debit_col = << >> \/ credit_col = << >> THEN << >>
             ELSE Let(SetCol(df, debit_col[1], NumericOrZero(Col(df, debit_col[1]))),
                  LAMBDA d1 :
                  Let(SetCol(d1, credit_col[1], NumericOrZero(Col(d1, credit_col[1]))),
                  LAMBDA d2 :
                      <<SetCol(d2, <<"a","m","o","u","n","t">>,
                          [r \in RowSet(d2) |->
                              Num(FSub(Col(d2, credit_col[1])[r].n,
                                       Col(d2, debit_col[1])[r].n))])>>))

\* app.py:163-165, 172-173
AppCleanup(df) ==
    Let(SetCol(df, <<"a","m","o","u","n","t">>, [r \in RowSet(df) |-> ToNumeric(Col(df, <<"a","m","o","u","n","t">>)[r])]),
        LAMBDA a :
            DropNa(SetCol(a, <<"d","a","t","e">>, [r \in RowSet(a) |-> ToDatetime(Col(a, <<"d","a","t","e">>)[r])]),
                   {<<"d","a","t","e">>, <<"a","m","o","u","n","t">>}))

\* app.py:120-173 : [raised, result, df]
AppNormalize(t) ==
    Let(ReadCsv(t), LAMBDA read :
    Let(StandardizeHeaders(read), LAMBDA df0 :
    Let(AppDetectDate(df0), LAMBDA dated :
    Let(AppDetectDescription(dated), LAMBDA df1 :
    Let(AppBuildAmount(df1), LAMBDA built :
        IF built = << >>
        THEN [raised |-> TRUE, df |-> df1,
              result |-> Raised("AttributeError", <<"f","i","l","l","n","a">>)]
        ELSE IF ~HasCol(built[1], <<"a","m","o","u","n","t">>)
        THEN [raised |-> TRUE, df |-> built[1], result |-> Raised("KeyError", <<"a","m","o","u","n","t">>)]
        ELSE IF ~HasCol(built[1], <<"d","a","t","e">>)
        THEN [raised |-> TRUE, df |-> built[1], result |-> Raised("KeyError", <<"d","a","t","e">>)]
        ELSE [raised |-> FALSE, df |-> AppCleanup(built[1]), result |-> NoResult])))))

\* Series.min() < 0 and Series.max() > 0 (both False on an empty column)
MixedSigns(df) ==
    /\ \E r \in RowSet(df) : Amounts(df)[r] < 0
    /\ \E r \in RowSet(df) : Amounts(df)[r] > 0

TypeOutflowWords == {<<"o","u","t","f","l","o","w">>, <<"d","r">>, <<"d","e","b","i","t">>}
ExpenseKeywords ==
    { <<"r","e","n","t">>, <<"s","a","l","a","r","y">>, <<"a","d","s">>, <<"a","d","v","e","r","t","i","s","i","n","g">>, <<"g","o","o","g","l","e">>, <<"f","a","c","e","b","o","o","k">>, <<"e","m","i">>,
      <<"i","n","t","e","r","e","s","t">>, <<"g","s","t">>, <<"t","a","x">>, <<"e","l","e","c","t","r","i","c","i","t","y">>, <<"i","n","t","e","r","n","e","t">>, <<"a","w","s">>, <<"r","a","z","o","r","p","a","y">>,
      <<"o","f","f","i","c","e">>, <<"t","r","a","v","e","l">> }

\* app.py:188
LowerTypes(df) ==
    SetCol(df, <<"t","y","p","e">>, [r \in RowSet(df) |-> Str(LowerStr(StrOf(Col(df, <<"t","y","p","e">>)[r])))])

\* app.py:202-207
SignByKeywordIgnoringSign(df) ==
    [r \in RowSet(df) |->
        IF ContainsAny(LowerStr(StrOf(Col(df, <<"d","e","s","c","r","i","p","t","i","o","n">>)[r])), ExpenseKeywords)
        THEN Num(-Amounts(df)[r])
        ELSE Num(Amounts(df)[r])]

SignByKeyword(df) ==
    [r \in RowSet(df) |->
        IF ContainsAny(LowerStr(StrOf(Col(df, <<"d","e","s","c","r","i","p","t","i","o","n">>)[r])), ExpenseKeywords)
        THEN Num(-Abs(Amounts(df)[r]))
        ELSE Num(Abs(Amounts(df)[r]))]

\* app.py:189-194
SignByType(df) ==
    [r \in RowSet(df) |->
        IF ContainsAny(Col(df, <<"t","y","p","e">>)[r].s, TypeOutflowWords)
        THEN Num(-Abs(Amounts(df)[r]))
        ELSE Num(Abs(Amounts(df)[r]))]

\* a cell after fillna(0)
FillZero(c) == IF IsNa(c) THEN Num(0) ELSE c

\* app.py:178-207 : [raised, result, df]
SignGuard(df) ==
    IF MixedSigns(df) THEN [raised |-> FALSE, df |-> df, result |-> NoResult]
    ELSE IF HasCol(df, <<"d","e","b","i","t">>) \/ HasCol(df, <<"c","r","e","d","i","t">>)
    THEN IF ~(HasCol(df, <<"d","e","b","i","t">>) /\ HasCol(df, <<"c","r","e","d","i","t">>))
         THEN [raised |-> TRUE, df |-> df, result |-> Raised("AttributeError", <<"f","i","l","l","n","a">>)]
         ELSE IF \E r \in RowSet(df) :
                    IsStr(Col(df, <<"c","r","e","d","i","t">>)[r]) \/ IsStr(Col(df, <<"d","e","b","i","t">>)[r])
         THEN [raised |-> TRUE, df |-> df, result |-> Raised("TypeError", <<"-">>)]
         ELSE [raised |-> FALSE, result |-> NoResult,
               df |-> SetCol(df, <<"a","m","o","u","n","t">>,
                        [r \in RowSet(df) |->
                            Num(FSub(FillZero(Col(df, <<"c","r","e","d","i","t">>)[r]).n,
                                     FillZero(Col(df, <<"d","e","b","i","t">>)[r]).n))])]
    ELSE IF HasCol(df, <<"t","y","p","e">>)
    THEN Let(LowerTypes(df), LAMBDA typed :
             IF NRows(df) = 0
             THEN [raised |-> TRUE, df |-> typed,
                   result |-> Raised("ValueError", <<"a","m","o","u","n","t">>)]
             ELSE [raised |-> FALSE, result |-> NoResult,
                   df |-> SetCol(typed, <<"a","m","o","u","n","t">>, SignByType(typed))])
    ELSE IF NRows(df) = 0
    THEN [raised |-> TRUE, df |-> df, result |-> Raised("ValueError", <<"a","m","o","u","n","t">>)]
    ELSE [raised |-> FALSE, df |-> SetCol(df, <<"a","m","o","u","n","t">>, SignByKeyword(df)),
          result |-> NoResult]

\* ------------------------------------------------- app.py core calculations
\* Series.str.contains(pattern, case=False, na=False) for an alternation of
\* literal words
MatchesAny(cell, words) == IsStr(cell) /\ ContainsAny(LowerStr(cell.s), words)

\* df[df["amount"] < 0].groupby(df["date"].dt.date)["amount"].sum() : the
\* per-day sums of the outflow rows, by ascending day
OutflowRows(df) == {r \in RowSet(df) : Amounts(df)[r] < 0}
DailyOutflowSums(df) ==
    Let(Ascending({Dates(df)[r] : r \in OutflowRows(df)}), LAMBDA days :
        [i \in 1..Len(days) |->
            FSum(AmountsAt(df, {r \in OutflowRows(df) : Dates(df)[r] = days[i]}))])

\* .mean() of a non-empty series, as the quotient sum / count
MeanOf(s) == Ratio(FSum(s), Len(s))

\* app.py:215-224 : the displayed daily burn
AppDailyBurn(df) ==
    Let(AbsAll(DailyOutflowSums(df)), LAMBDA sums :
        IF sums = << >> \/ FSum(sums) = 0 THEN Ratio(1, 1) ELSE MeanOf(sums))

\* app.py:226
AppRunwayDays(cash_today, daily_burn) ==
    TruncDiv(cash_today * daily_burn.den, daily_burn.num)

MaxDate(df) ==
    Let({Dates(df)[r] : r \in RowSet(df)}, LAMBDA S : CHOOSE d \in S : \A e \in S : e <= d)
MinDate(df) ==
    Let({Dates(df)[r] : r \in RowSet(df)}, LAMBDA S : CHOOSE d \in S : \A e \in S : d <= e)

AppAdWords == {<<"a","d">>, <<"f","a","c","e","b","o","o","k">>, <<"g","o","o","g","l","e">>, <<"i","n","s","t","a","g","r","a","m">>}

\* app.py:212-238
AppCore(df) ==
    Let(FSum(Amounts(df)), LAMBDA cash_today :
    Let(FSum(AmountsAt(df, {r \in RowSet(df) : Amounts(df)[r] > 0})), LAMBDA inflows :
    Let(AppDailyBurn(df), LAMBDA daily_burn :
    Let(AppRunwayDays(cash_today, daily_burn), LAMBDA runway_days :
    Let(Abs(FSum(AmountsAt(df, {r \in OutflowRows(df) :
                                  MatchesAny(Col(df, <<"d","e","s","c","r","i","p","t","i","o","n">>)[r], AppAdWords)}))),
        LAMBDA ad_spend :
        [ kind          |-> "app",
          cash_today    |-> cash_today,
          inflows       |-> inflows,
          daily_burn    |-> daily_burn,
          runway_days   |-> runway_days,
          cash_out_date |-> IF NRows(df) = 0 THEN NaN ELSE Num(MaxDate(df) + runway_days),
          ad_ratio      |-> IF inflows > 0 THEN Ratio(ad_spend * 100, inflows)
                            ELSE Ratio(0, 1),
          risk_label    |-> IF runway_days < 90 THEN "High"
                            ELSE IF runway_days < 150 THEN "Medium" ELSE "Low" ])))))

\* ---------------------------------------- metrics.calculate_business_metrics
\* df.sort_values("date") : the row positions by ascending date, rows of one
\* date in their original order
RECURSIVE SortedPositions(_, _)
SortedPositions(dates, R) ==
    IF R = {} THEN << >>
    ELSE Let(CHOOSE x \in R :
                 \A y \in R : \/ dates[x] < dates[y]
                              \/ (dates[x] = dates[y] /\ x <= y),
             LAMBDA r : <<r>> \o Let(R \ {r}, LAMBDA rest : SortedPositions(dates, rest)))
SortByDate(df) ==
    Let(Dates(df), LAMBDA dates :
        Let(SortedPositions(dates, RowSet(df)), LAMBDA order :
            [df EXCEPT !.data = [i \in RowSet(df) |-> df.data[order[i]]]]))

MetricsAdWords ==
    {<<"a","d">>, <<"f","a","c","e","b","o","o","k">>, <<"g","o","o","g","l","e">>, <<"m","e","t","a">>, <<"i","n","s","t","a">>, <<"m","a","r","k","e","t","i","n","g">>, <<"i","n","f","l","u","e","n","c","e","r">>}
MetricsFixedWords ==
    {<<"r","e","n","t">>, <<"s","a","l","a","r","y">>, <<"w","a","g","e">>, <<"o","f","f","i","c","e">>, <<"i","n","t","e","r","n","e","t">>, <<"s","o","f","t","w","a","r","e">>, <<"s","a","a","s">>}
MetricsReturnWords == {<<"r","e","f","u","n","d">>, <<"r","e","t","u","r","n">>, <<"r","t","o">>, <<"r","e","v","e","r","s","e">>}

\* df.loc[mask & (df["amount"] < 0), "amount"].abs().sum()
OutflowTotal(df, words) ==
    FSum(AbsAll(AmountsAt(df,
        {r \in OutflowRows(df) : MatchesAny(Col(df, <<"d","e","s","c","r","i","p","t","i","o","n">>)[r], words)})))

\* metrics.py:42 : the reported cash position
CurrentCash(df) == FSum(Amounts(df))

\* metrics.py:43-51 : the runway in tenths of a month; burn_num is the daily
\* net burn times 3000 * total_days
RunwayMonths(cash_now, burn_num, total_days) ==
    IF burn_num > 0
    THEN Ratio(RoundHalfEven(cash_now * total_days * 1000, burn_num), 10)
    ELSE Ratio(990, 10)

\* metrics.py:4-62 : [raised, result]
CalculateBusinessMetrics(frame) ==
    IF ~HasCol(frame, <<"d","a","t","e">>)
    THEN [raised |-> TRUE, result |-> Raised("KeyError", <<"d","a","t","e">>)]
    ELSE IF ~HasCol(frame, <<"a","m","o","u","n","t">>)
    THEN [raised |-> TRUE, result |-> Raised("KeyError", <<"a","m","o","u","n","t">>)]
    ELSE IF ~HasCol(frame, <<"d","e","s","c","r","i","p","t","i","o","n">>)
    THEN [raised |-> TRUE, result |-> Raised("KeyError", <<"d","e","s","c","r","i","p","t","i","o","n">>)]
    ELSE IF NRows(frame) = 0
    THEN [raised |-> FALSE,
          result |-> [ kind |-> "business_metrics", cash_today |-> 0,
                       runway_months |-> Ratio(990, 10),
                       avg_daily_sales |-> Ratio(0, 100),
                       avg_daily_ad_spend |-> NaN, avg_daily_fixed_cost |-> NaN,
                       return_rate |-> Ratio(0, 1), ad_spend_pct |-> Ratio(0, 1),
                       avg_daily_outflow |-> NaN ]]
    ELSE
    Let(SortByDate(frame), LAMBDA df :
    Let(MaxDate(df) - MinDate(df), LAMBDA span :
    Let(IF span = 0 THEN 1 ELSE span, LAMBDA total_days :
    Let(FSum(AmountsAt(df, {r \in RowSet(df) : Amounts(df)[r] > 0})), LAMBDA total_inflow :
    Let(FSum(AmountsAt(df, {r \in RowSet(df) : /\ Dates(df)[r] > MaxDate(df) - 30
                                               /\ Amounts(df)[r] > 0})),
        LAMBDA recent_inflow :
    Let(OutflowTotal(df, MetricsAdWords), LAMBDA total_ad_spend :
    Let(OutflowTotal(df, MetricsFixedWords), LAMBDA total_fixed :
    Let(OutflowTotal(df, MetricsReturnWords), LAMBDA total_returns :
    Let(CurrentCash(df), LAMBDA cash_now :
    Let(FAdd(FAdd(total_ad_spend, total_fixed), total_returns), LAMBDA outflow_sum :
    \* daily_net_burn = outflow_sum / total_days - (recent_inflow / 30) * 0.85
    Let(outflow_sum * 3000 - recent_inflow * 85 * total_days, LAMBDA burn_num :
        [raised |-> FALSE,
         result |-> [ kind |-> "business_metrics",
                      cash_today |-> cash_now,
                      runway_months |-> RunwayMonths(cash_now, burn_num, total_days),
                      avg_daily_sales |-> Ratio(RoundHalfEven(recent_inflow * 100, 30), 100),
                      avg_daily_ad_spend |->
                          Ratio(RoundHalfEven(total_ad_spend * 100, total_days), 100),
                      avg_daily_fixed_cost |->
                          Ratio(RoundHalfEven(total_fixed * 100, total_days), 100),
                      return_rate |->
                          IF total_inflow > 0
                          THEN Ratio(RoundHalfEven(total_returns * 10000, total_inflow), 10000)
                          ELSE Ratio(0, 1),
                      ad_spend_pct |->
                          IF total_inflow > 0 THEN Ratio(total_ad_spend, total_inflow)
                          ELSE Ratio(0, 1),
                      avg_daily_outflow |-> Ratio(outflow_sum, total_days) ]]
    )))))))))))

\* ------------------------------------------ cashflow.calculate_cash_metrics
CashAdWords == {<<"a","d","s">>, <<"f","a","c","e","b","o","o","k">>, <<"g","o","o","g","l","e">>, <<"i","n","s","t","a","g","r","a","m">>, <<"m","e","t","a">>}
CashReturnWords == {<<"r","e","f","u","n","d">>, <<"r","e","t","u","r","n">>}

classify_expenseRentFirst(desc) ==
    IF ContainsAny(desc, {<<"a","d","s">>, <<"f","a","c","e","b","o","o","k">>, <<"g","o","o","g","l","e">>, <<"m","e","t","a">>}) THEN "Advertising"
    ELSE IF ContainsAny(desc, {<<"r","e","n","t">>, <<"o","f","f","i","c","e">>, <<"l","e","a","s","e">>}) THEN "Rent"
    ELSE IF ContainsAny(desc, {<<"s","a","l","a","r","y">>, <<"w","a","g","e","s">>, <<"p","a","y","r","o","l","l">>}) THEN "Salaries"
    ELSE IF ContainsAny(desc, {<<"s","o","f","t","w","a","r","e">>, <<"s","a","a","s">>, <<"t","o","o","l">>}) THEN "Software"
    ELSE "Other"

\* cashflow.py:41-50
classify_expense(desc) ==
    IF ContainsAny(desc, {<<"a","d","s">>, <<"f","a","c","e","b","o","o","k">>, <<"g","o","o","g","l","e">>, <<"m","e","t","a">>}) THEN "Advertising"
    ELSE IF ContainsAny(desc, {<<"s","a","l","a","r","y">>, <<"w","a","g","e","s">>, <<"p","a","y","r","o","l","l">>}) THEN "Salaries"
    ELSE IF ContainsAny(desc, {<<"r","e","n","t">>, <<"o","f","f","i","c","e">>, <<"l","e","a","s","e">>}) THEN "Rent"
    ELSE IF ContainsAny(desc, {<<"s","o","f","t","w","a","r","e">>, <<"s","a","a","s">>, <<"t","o","o","l">>}) THEN "Software"
    ELSE "Other"

\* groupby("category") lists the categories in sorted order
CategoryOrder == <<"Advertising", "Other", "Rent", "Salaries", "Software">>

\* cashflow.py:4-16 : what the call does to the frame it is given
NormalizeInPlace(frame) ==
    Let(StandardizeHeaders(frame), LAMBDA d0 :
    Let(SetCol(d0, <<"d","a","t","e">>, [r \in RowSet(d0) |-> ToDatetime(Col(d0, <<"d","a","t","e">>)[r])]),
        LAMBDA d1 :
    Let(SetCol(d1, <<"t","y","p","e">>,
               [r \in RowSet(d1) |-> Str(LowerStr(StrOf(Col(d1, <<"t","y","p","e">>)[r])))]),
        LAMBDA d2 :
    Let(IF HasCol(d2, <<"d","e","s","c","r","i","p","t","i","o","n">>) THEN d2
        ELSE SetCol(d2, <<"d","e","s","c","r","i","p","t","i","o","n">>, [r \in RowSet(d2) |-> Str(<< >>)]),
        LAMBDA d3 :
        SetCol(d3, <<"d","e","s","c","r","i","p","t","i","o","n">>,
               [r \in RowSet(d3) |-> Str(LowerStr(StrOf(Col(d3, <<"d","e","s","c","r","i","p","t","i","o","n">>)[r])))])))))

\* cashflow.py:33-34 : "Cash Positive" or the rounded number of days
CashRunway(cash_today, daily_sums) ==
    Let(daily_sums, LAMBDA sums :
        IF sums = << >> \/ FSum(sums) >= 0 THEN [sentinel |-> "Cash Positive"]
        ELSE [days |-> RoundHalfEven(Abs(cash_today) * Len(sums), Abs(FSum(sums)))])

\* cashflow.py:39-70 : the categories by descending total
RECURSIVE Descending(_, _)
Descending(total, cats) ==
    IF cats = {} THEN << >>
    ELSE Let(CHOOSE x \in cats :
                 \A y \in cats : \/ total[x] > total[y]
                                 \/ (total[x] = total[y] /\ x <= y),
             LAMBDA c : <<c>> \o Let(cats \ {c}, LAMBDA rest : Descending(total, rest)))

ExpenseBreakdown(df) ==
    Let([r \in RowSet(df) |-> classify_expense(Col(df, <<"d","e","s","c","r","i","p","t","i","o","n">>)[r].s)], LAMBDA cat :
    Let({i \in 1..Len(CategoryOrder) :
            \E r \in OutflowRows(df) : cat[r] = CategoryOrder[i]}, LAMBDA used :
    Let([i \in used |->
            Abs(FSum(AmountsAt(df, {r \in OutflowRows(df) : cat[r] = CategoryOrder[i]})))],
        LAMBDA total :
    Let(Descending(total, used), LAMBDA order :
    Let(FSum([k \in 1..Len(order) |-> total[order[k]]]), LAMBDA expense :
        [k \in 1..Len(order) |->
            [ category   |-> CategoryOrder[order[k]],
              amount     |-> total[order[k]],
              percentage |-> IF expense > 0
                             THEN Ratio(RoundHalfEven(total[order[k]] * 1000, expense), 10)
                             ELSE Ratio(0, 1) ]])))))

\* cashflow.py:3-78 : [raised, result, df]
CalculateCashMetrics(frame) ==
    Let(StandardizeHeaders(frame), LAMBDA d0 :
        IF ~(HasCol(d0, <<"d","a","t","e">>) /\ HasCol(d0, <<"a","m","o","u","n","t">>) /\ HasCol(d0, <<"t","y","p","e">>))
        THEN [raised |-> TRUE, df |-> d0, result |-> Raised("ValueError", <<"c","o","l","u","m","n","s">>)]
        ELSE
        Let(NormalizeInPlace(frame), LAMBDA df :
        Let(FSum(AmountsAt(df, {r \in RowSet(df) : /\ Amounts(df)[r] > 0
                                                   /\ Col(df, <<"t","y","p","e">>)[r].s = <<"i","n","f","l","o","w">>})),
            LAMBDA sales :
        Let(FSum(AbsAll(AmountsAt(df,
                {r \in RowSet(df) :
                    ContainsAny(Col(df, <<"d","e","s","c","r","i","p","t","i","o","n">>)[r].s, CashAdWords)}))),
            LAMBDA ad_spend :
        Let(FSum(AbsAll(AmountsAt(df,
                {r \in RowSet(df) :
                    ContainsAny(Col(df, <<"d","e","s","c","r","i","p","t","i","o","n">>)[r].s, CashReturnWords)}))),
            LAMBDA returns :
        Let(FSum(Amounts(df)), LAMBDA cash_today :
            [raised |-> FALSE, df |-> df,
             result |-> [ kind |-> "cash_metrics",
                          cash_today |-> cash_today,
                          runway_days |-> CashRunway(cash_today, DailyOutflowSums(df)),
                          ad_spend_pct |->
                              IF sales > 0
                              THEN Ratio(RoundHalfEven(ad_spend * 1000, sales), 10)
                              ELSE Ratio(0, 10),
                          return_rate |->
                              IF sales > 0
                              THEN Ratio(RoundHalfEven(returns * 1000, sales), 10)
                              ELSE Ratio(0, 10),
                          expense_breakdown |-> ExpenseBreakdown(df) ]])))))
    )


\* ------------------------------------------- decisions.generate_decisions
\* Python's None
None == [none |-> TRUE]

\* metrics.get(key, default)
Get(m, key, default) == IF key \in DOMAIN m THEN m[key] ELSE default

\* isinstance(v, (int, float)): a quotient or NaN
IsNumber(v) == DOMAIN v = {"num", "den"} \/ IsNa(v)

\* v > n / d and v < n / d for a number v and the literal n / d; every
\* comparison with NaN is False.  A quotient of two amounts is correctly
\* rounded, so it compares with the literal as the exact quotient does.
Above(v, n, d) == ~IsNa(v) /\ v.num * d > n * v.den
Below(v, n, d) == ~IsNa(v) /\ v.num * d < n * v.den

\* a risk or an action: its fixed text and the value formatted into it
Line(text, arg) == [text |-> text, arg |-> arg]

\* decisions.py:10
AdRuleFiresInclusive(m) ==
    /\ ~IsNa(Get(m, "ad_spend_pct", Ratio(0, 1)))
    /\ ~Below(Get(m, "ad_spend_pct", Ratio(0, 1)), 30, 100)

AdRuleFires(m) == Above(Get(m, "ad_spend_pct", Ratio(0, 1)), 30, 100)

\* decisions.py:15
ReturnRuleFires(m) == Above(Get(m, "return_rate", Ratio(0, 1)), 15, 100)

\* decisions.py:21-22
RunwayRuleFires(m) ==
    IsNumber(Get(m, "runway_months", None)) /\ Below(Get(m, "runway_months", None), 3, 1)

\* decisions.py:26 : a runway that is no int or float and equals 0
ZeroRunwayFires(m) ==
    ~IsNumber(Get(m, "runway_months", None)) /\ Get(m, "runway_months", None) = Ratio(0, 1)

\* decisions.py:9-28 : the risks, in the order of the rules
RisksOf(m) ==
    (IF AdRuleFires(m)
     THEN <<Line("Ad spend is consuming over 30% of revenue.", None)>> ELSE << >>)
    \o (IF ReturnRuleFires(m)
        THEN <<Line("High Return Rate", Get(m, "return_rate", Ratio(0, 1)))>> ELSE << >>)
    \o (IF RunwayRuleFires(m)
        THEN <<Line("CRITICAL: Cash runway is only", Get(m, "runway_months", None))>>
        ELSE << >>)
    \o (IF ZeroRunwayFires(m)
        THEN <<Line("CRITICAL: Negative cash flow detected.", None)>> ELSE << >>)

\* decisions.py:9-28 : the actions of the rules that fired
RuleActions(m) ==
    (IF AdRuleFires(m)
     THEN <<Line("Audit ad sets and stop any with ROAS below 2.0.", None)>> ELSE << >>)
    \o (IF ReturnRuleFires(m)
        THEN <<Line("Analyze return reasons; pause high-return SKUs.", None)>> ELSE << >>)
    \o (IF RunwayRuleFires(m)
        THEN <<Line("Negotiate 30-day payment extensions with vendors.", None),
               Line("Identify non-essential SaaS to cancel.", None)>>
        ELSE << >>)
    \o (IF ZeroRunwayFires(m)
        THEN <<Line("Immediate cost-cutting required.", None)>> ELSE << >>)

Maintain == Line("Maintain current trajectory. Review again in 7 days.", None)

\* decisions.py:30-31
WithMaintainAlways(risks, actions) == Append(actions, Maintain)

WithMaintain(risks, actions) ==
    IF risks = << >> THEN Append(actions, Maintain) ELSE actions

\* decisions.py:1-36
generate_decisions(m) ==
    Let(RisksOf(m), LAMBDA risks :
        [risks |-> risks, actions |-> WithMaintain(risks, RuleActions(m))])

\* The snapshots a caller may pass: ratios around the two thresholds, and a
\* runway in months, None (no such key value) or the text of cashflow.py:34.
AdRatios == {Ratio(0, 1), Ratio(29, 100), Ratio(30, 100), Ratio(3, 10), Ratio(31, 100), NaN}
ReturnRatios == {Ratio(0, 1), Ratio(15, 100), Ratio(16, 100)}
Runways ==
    {Ratio(0, 10), Ratio(29, 10), Ratio(30, 10), Ratio(990, 10), None,
     [sentinel |-> "Cash Positive"]}
Snapshots ==
    { [kind |-> "snapshot", ad_spend_pct |-> a, return_rate |-> q, runway_months |-> w] :
        a \in AdRatios, q \in ReturnRatios, w \in Runways }

\* generate_decisions(metrics) on the dict calculate_business_metrics returned
Decide ==
    /\ pc = "metrics_done"
    /\ metrics' = result
    /\ decisions' = generate_decisions(result)
    /\ pc' = "decided"
    /\ UNCHANGED <<fvars, lvars>>

\* generate_decisions(metrics) on a dict the caller built
DecideSnapshot ==
    /\ pc = "idle"
    /\ \E m \in Snapshots :
          /\ metrics' = m
          /\ decisions' = generate_decisions(m)
    /\ pc' = "decided"
    /\ UNCHANGED <<fvars, lvars>>

\* ------------------------------------------------------------ categorizers
\* app.py:320-328
map_category(desc) ==
    Let(LowerStr(StrOf(desc)), LAMBDA d :
        IF Contains(d, <<"a","d">>) \/ Contains(d, <<"f","a","c","e","b","o","o","k">>) \/ Contains(d, <<"g","o","o","g","l","e">>)
        THEN "Advertising"
        ELSE IF Contains(d, <<"s","a","l","a","r","y">>) THEN "Salary"
        ELSE IF Contains(d, <<"r","e","n","t">>) THEN "Rent"
        ELSE "Other")

\* The descriptions of the rows categorized.
Descriptions ==
    { <<"F","a","c","e","b","o","o","k"," ","A","d","s"," ","R","e","f","u","n","d">>, <<"S","a","l","a","r","y"," ","f","o","r"," ","a","d","s"," ","t","e","a","m">>, <<"O","f","f","i","c","e"," ","s","o","f","t","w","a","r","e">>,
      <<"S","a","a","S"," ","t","o","o","l">>, <<"C","u","s","t","o","m","e","r"," ","r","e","f","u","n","d">>, <<"R","e","n","t">>, <<"S","a","l","a","r","y">>, <<"P","a","y","r","o","l","l"," ","r","e","n","t">>,
      <<"G","o","o","g","l","e"," ","W","o","r","k","s","p","a","c","e">>, <<"I","n","s","t","a","g","r","a","m"," ","p","r","o","m","o">>, <<"M","i","s","c">>, <<"M","e","t","a"," ","l","e","a","s","e">>,
      <<"R","o","a","d","s","i","d","e"," ","s","a","l","a","r","y">> }

\* cashflow.py:16, 52 and app.py:330 : one description is categorized
Categorize ==
    /\ pc = "idle"
    /\ \E text \in Descriptions :
          result' = [ kind |-> "category", description |-> text,
                      expense_category |-> classify_expense(LowerStr(StrOf(Str(text)))),
                      mapped_category |-> map_category(Str(text)) ]
    /\ pc' = "categorized"
    /\ UNCHANGED <<fvars, dvars, table, caller_df>>
\* ----------------------------------------------------------------- callers
\* main.py:30 : metrics = calculate_business_metrics(df)
BusinessMetrics ==
    /\ pc = "loaded"
    /\ \E out \in {CalculateBusinessMetrics(caller_df)} :
          /\ result' = out.result
          /\ pc' = IF out.raised THEN "metrics_raised" ELSE "metrics_done"
    /\ UNCHANGED <<fvars, dvars, table, caller_df>>

\* calculate_cash_metrics(df) on the loaded frame
CashMetrics ==
    /\ pc = "loaded"
    /\ \E out \in {CalculateCashMetrics(caller_df)} :
          /\ result' = out.result
          /\ caller_df' = out.df
          /\ pc' = IF out.raised THEN "cash_metrics_raised" ELSE "cash_metrics_done"
    /\ UNCHANGED <<fvars, dvars, table>>

\* app.py:65-173 : a file is uploaded, read and normalised
AppUpload ==
    /\ pc = "idle"
    /\ \E t \in Tables :
          \E out \in {AppNormalize(t)} :
              /\ table' = t
              /\ caller_df' = out.df
              /\ result' = out.result
              /\ pc' = IF out.raised THEN "app_raised" ELSE "app_normalized"
    /\ UNCHANGED <<fvars, dvars>>

\* app.py:178-207
AppSignGuard ==
    /\ pc = "app_normalized"
    /\ \E out \in {SignGuard(caller_df)} :
          /\ caller_df' = out.df
          /\ result' = out.result
          /\ pc' = IF out.raised THEN "app_raised" ELSE "app_guarded"
    /\ UNCHANGED <<fvars, dvars, table>>

\* app.py:212-238
AppCoreCalculations ==
    /\ pc = "app_guarded"
    /\ result' = AppCore(caller_df)
    /\ pc' = "app_done"
    /\ UNCHANGED <<fvars, dvars, table, caller_df>>

Init ==
    /\ pc = "idle"
    /\ fin = NoInputs
    /\ day = 0
    /\ current_cash = 0
    /\ rows = << >>
    /\ forecast_df = << >>
    /\ table = EmptyFrame
    /\ caller_df = EmptyFrame
    /\ result = NoResult
    /\ metrics = NoResult
    /\ decisions = NoDecisions

Next ==
    \/ ForecastCall
    \/ ForecastStep
    \/ ForecastReturn
    \/ Load
    \/ BusinessMetrics
    \/ CashMetrics
    \/ AppUpload
    \/ AppSignGuard
    \/ AppCoreCalculations
    \/ Decide
    \/ DecideSnapshot
    \/ Categorize

Spec == Init /\ [][Next]_vars

\* ===================================================================== claims
Representable(x) == FloatRound(x) = x

\* The rows built so far, and the returned frame once the call has returned.
RowIndex == 1..Len(rows)

\* C1 as stated: every row of every forecast satisfies
\* closing_cash - opening_cash = inflow - outflow, for any inputs.
C1_BalanceIdentityAnyInputs ==
    \A i \in RowIndex :
        rows[i].closing_cash - rows[i].opening_cash = rows[i].inflows - rows[i].outflows

\* C1 amended: closing_cash is the float result of (opening_cash + inflow) -
\* outflow, and whenever neither of the two sums is rounded the row satisfies
\* closing_cash - opening_cash = inflow - outflow.
C1_BalanceIdentityWhenExact ==
    \A i \in RowIndex :
        LET r == rows[i]
        IN  /\ r.closing_cash =
                  FloatRound(FloatRound(r.opening_cash + r.inflows) - r.outflows)
            /\ (Representable(r.opening_cash + r.inflows)
                  /\ Representable(r.opening_cash + r.inflows - r.outflows))
               => r.closing_cash - r.opening_cash = r.inflows - r.outflows

C1_Witness ==
    /\ pc = "forecast_done"
    /\ Len(forecast_df) >= 2
    /\ \E i \in 1..Len(forecast_df) :
          /\ forecast_df[i].inflows > 0
          /\ forecast_df[i].outflows > 0
          /\ forecast_df[i].inflows # forecast_df[i].outflows
          /\ Representable(forecast_df[i].opening_cash + forecast_df[i].inflows)

\* C2: the returned series has exactly `days` rows in ascending day order, the
\* first opening_cash is cash_today and each later opening_cash is the
\* previous row's closing_cash.
C2_SeriesShape ==
    pc = "forecast_done" =>
        /\ Len(forecast_df) = fin.days
        /\ \A i \in 1..Len(forecast_df) : forecast_df[i].date = fin.start_date + i
        /\ \A i \in 1..(Len(forecast_df) - 1) :
              /\ forecast_df[i].date < forecast_df[i + 1].date
              /\ forecast_df[i + 1].opening_cash = forecast_df[i].closing_cash
        /\ Len(forecast_df) >= 1 => forecast_df[1].opening_cash = fin.cash_today

C2_Witness ==
    /\ pc = "forecast_done"
    /\ fin.days = MaxDays
    /\ \E i \in 1..(Len(forecast_df) - 1) :
          forecast_df[i + 1].opening_cash # forecast_df[i].opening_cash

\* C3: on day <= collections delay the inflow is 0 and the outflow is still
\* ad spend + fixed cost; on later days the inflow is sales * (1 - return_rate).
C3_DelayWindow ==
    \A i \in RowIndex :
        /\ rows[i].outflows =
              FloatRound(fin.avg_daily_ad_spend + fin.avg_daily_fixed_cost)
        /\ i <= fin.cod_delay_days => rows[i].inflows = 0
        /\ i > fin.cod_delay_days =>
              rows[i].inflows =
                  FloatRound((fin.avg_daily_sales * (2 - fin.return_rate)) \div 2)

C3_Witness ==
    /\ pc = "forecast_done"
    /\ fin.cod_delay_days >= 1
    /\ fin.days > fin.cod_delay_days
    /\ fin.avg_daily_sales > 0
    /\ fin.return_rate = 1
    /\ forecast_df[fin.cod_delay_days].inflows = 0
    /\ forecast_df[fin.cod_delay_days].outflows > 0
    /\ forecast_df[fin.cod_delay_days + 1].inflows > 0

\* ------------------------------------------------------------ ledger claims
\* The exact (unrounded) sum of a sequence of numbers.
RECURSIVE ExactSumTo(_, _)
ExactSumTo(s, k) == IF k = 0 THEN 0 ELSE ExactSumTo(s, k - 1) + s[k]
ExactSum(s) == ExactSumTo(s, Len(s))

\* The closing cash of day d of the forecast made from the inputs f.
RECURSIVE ClosingOn(_, _)
ClosingOn(f, d) ==
    IF d = 0 THEN f.cash_today
    ELSE ClosingCash(ClosingOn(f, d - 1), InflowOf(f, d), OutflowOf(f))

\* The first day of the horizon whose closing cash is below zero, as a
\* one-element tuple; << >> when no day of the horizon is.
FirstCrossing(f) ==
    LET below == {d \in 1..f.days : ClosingOn(f, d) < 0}
    IN  IF below = {} THEN << >>
        ELSE <<CHOOSE d \in below : \A e \in below : d <= e>>

ScenarioC ==
    [ cash_today |-> 10000, start_date |-> 31, days |-> 5, avg_daily_sales |-> 0,
      avg_daily_ad_spend |-> 2000, avg_daily_fixed_cost |-> 1000,
      cod_delay_days |-> 0, return_rate |-> 0 ]

\* The forecast that continues the ledger the dashboard shows: it starts from
\* the displayed cash at the last ledger date and spends the displayed daily
\* burn every day, with no sales.
DashboardForecast(r, df) ==
    [ cash_today |-> r.cash_today, start_date |-> MaxDate(df), days |-> MaxDays,
      avg_daily_sales |-> 0, avg_daily_ad_spend |-> r.daily_burn.num,
      avg_daily_fixed_cost |-> 0, cod_delay_days |-> 0, return_rate |-> 0 ]

\* C4: the cash-out date the program reports is the first forecast day whose
\* closing cash crosses zero and is absent when no day of the horizon does;
\* for cash 10000, ad spend 2000, fixed cost 1000, no sales and 5 days the
\* closing cash runs 7000, 4000, 1000, -2000, -5000 and the cash-out day is 4.
C4_CashOutIsFirstCrossing ==
    /\ (pc = "forecast_done" /\ fin = ScenarioC) =>
          /\ [i \in 1..Len(forecast_df) |-> forecast_df[i].closing_cash]
                = <<7000, 4000, 1000, -2000, -5000>>
          /\ FirstCrossing(fin) = <<4>>
    /\ (pc = "app_done" /\ result.daily_burn.den = 1) =>
          LET crossing == FirstCrossing(DashboardForecast(result, caller_df))
          IN  IF crossing = << >> THEN IsNa(result.cash_out_date)
              ELSE result.cash_out_date = Num(MaxDate(caller_df) + crossing[1])

\* The opening balances a caller may hold (main.py:11 holds OPENING_CASH).
OpeningBalances == {0, OPENING_CASH}

MetricsReported == pc \in {"metrics_done", "cash_metrics_done", "app_done"}

\* C5: for every valid ledger and every opening balance, the reported
\* cash_today is the opening balance plus the sum of all amounts, exactly.
C5_CashTodayIncludesOpening ==
    MetricsReported =>
        \A opening_balance \in OpeningBalances :
            result.cash_today = opening_balance + ExactSum(Amounts(caller_df))

NoOutflow(df) == NRows(df) > 0 /\ \A r \in RowSet(df) : Amounts(df)[r] >= 0

\* The runway reported is the sentinel of the engine that reported it:
\* "Cash Positive" (cashflow.py:34) or 99.0 (metrics.py:51); app.py:226 has
\* none, its runway is always an int.
ReportsSentinel(r) ==
    \/ r.kind = "cash_metrics" /\ r.runway_days = [sentinel |-> "Cash Positive"]
    \/ r.kind = "business_metrics" /\ r.runway_months = Ratio(990, 10)

\* The daily burn reported is zero, by the engines that report one.
ReportsZeroBurn(r) ==
    /\ r.kind = "app" => r.daily_burn.num = 0
    /\ r.kind = "business_metrics" => r.avg_daily_outflow.num = 0

\* C6: a ledger of transactions none of which is an outflow is reported with a daily burn
\* of 0 and the sustainable-runway sentinel instead of a numeric runway.
C6_NoOutflowIsSustainable ==
    (MetricsReported /\ NoOutflow(caller_df)) =>
        ReportsZeroBurn(result) /\ ReportsSentinel(result)

\* The header texts of the uploaded table, case and blanks aside.
HeaderTexts(t) == {Strip(LowerStr(t.columns[i])) : i \in 1..Len(t.columns)}
DateRoleWords == {<<"d","a","t","e">>, <<"t","i","m","e">>}
DescriptionRoleWords ==
    {<<"d","e","s","c">>, <<"a","c","t","i","v","i","t","y">>, <<"n","a","m","e">>, <<"n","a","r","r","a","t","i","o","n">>, <<"c","o","m","m","e","n","t">>, <<"r","e","m","a","r","k","s">>, <<"p","a","r","t","i","c","u","l","a","r","s">>}
NoHeaderFor(t, words) == \A h \in HeaderTexts(t) : ~ContainsAny(h, words)

Normalized == pc \in {"loaded", "app_normalized", "app_raised"}

\* C7: when no column of the table resolves to the date role, or none to the
\* description role, the load fails with a SchemaError naming the missing
\* role, and returns no empty or defaulted ledger.
C7_MissingRoleIsSchemaError ==
    /\ (Normalized /\ NoHeaderFor(table, DateRoleWords)) =>
          result = Raised("SchemaError", <<"d","a","t","e">>)
    /\ (Normalized /\ ~NoHeaderFor(table, DateRoleWords)
                   /\ NoHeaderFor(table, DescriptionRoleWords)) =>
          result = Raised("SchemaError", <<"d","e","s","c","r","i","p","t","i","o","n">>)

\* df[plus].apply(clean_currency) - df[minus].apply(clean_currency), row r
DiffAt(df, r, plus, minus) ==
    FSub(CleanCurrency(Col(df, plus)[r]), CleanCurrency(Col(df, minus)[r]))

HasPair(df, a, b) == HasCol(df, a) /\ HasCol(df, b)

\* the load returned a ledger built from a table without an amount column
BuiltFromPair ==
    /\ pc = "loaded"
    /\ caller_df # EmptyFrame
    /\ <<"a","m","o","u","n","t">> \notin HeaderTexts(table)

\* C8 as stated: the amount comes from the first of the amount column, the
\* debit/credit pair, the withdrawals/deposits pair, the inflow/outflow pair;
\* with both of the last two pairs alone, amount = deposits - withdrawals.
C8_DepositsBeforeInflow ==
    BuiltFromPair =>
        \A r \in RowSet(caller_df) :
            Amounts(caller_df)[r] =
                IF HasPair(caller_df, <<"d","e","b","i","t">>, <<"c","r","e","d","i","t">>)
                THEN DiffAt(caller_df, r, <<"c","r","e","d","i","t">>, <<"d","e","b","i","t">>)
                ELSE IF HasPair(caller_df, <<"d","e","p","o","s","i","t","s">>, <<"w","i","t","h","d","r","a","w","a","l","s">>)
                THEN DiffAt(caller_df, r, <<"d","e","p","o","s","i","t","s">>, <<"w","i","t","h","d","r","a","w","a","l","s">>)
                ELSE DiffAt(caller_df, r, <<"i","n","f","l","o","w">>, <<"o","u","t","f","l","o","w">>)

\* C8 amended: the amount comes from the first of the amount column, the
\* debit/credit pair, the inflow/outflow pair, the deposits/withdrawals pair;
\* with both of the last two pairs alone, amount = inflow - outflow.
C8_InflowBeforeDeposits ==
    /\ BuiltFromPair =>
          \A r \in RowSet(caller_df) :
              Amounts(caller_df)[r] =
                  IF HasPair(caller_df, <<"d","e","b","i","t">>, <<"c","r","e","d","i","t">>)
                  THEN DiffAt(caller_df, r, <<"c","r","e","d","i","t">>, <<"d","e","b","i","t">>)
                  ELSE IF HasPair(caller_df, <<"i","n","f","l","o","w">>, <<"o","u","t","f","l","o","w">>)
                  THEN DiffAt(caller_df, r, <<"i","n","f","l","o","w">>, <<"o","u","t","f","l","o","w">>)
                  ELSE DiffAt(caller_df, r, <<"d","e","p","o","s","i","t","s">>, <<"w","i","t","h","d","r","a","w","a","l","s">>)
    /\ (pc = "loaded" /\ <<"a","m","o","u","n","t">> \in HeaderTexts(table)
                      /\ NRows(caller_df) = Len(table.data)) =>
          \A r \in RowSet(caller_df) :
              Amounts(caller_df)[r] = CleanCurrency(Col(StandardizeHeaders(ReadCsv(table)),
                                                        <<"a","m","o","u","n","t">>)[r])

C8_Witness ==
    /\ BuiltFromPair
    /\ NRows(caller_df) = 1
    /\ HasPair(caller_df, <<"i","n","f","l","o","w">>, <<"o","u","t","f","l","o","w">>)
    /\ HasPair(caller_df, <<"d","e","p","o","s","i","t","s">>, <<"w","i","t","h","d","r","a","w","a","l","s">>)
    /\ ~HasPair(caller_df, <<"d","e","b","i","t">>, <<"c","r","e","d","i","t">>)
    /\ Amounts(caller_df)[1] = 5

\* The date text resolves to a date.
DateResolves(text) == ~IsNa(ToDatetime(Str(text)))
\* The amount text resolves to a finite number: for the loader once the
\* characters clean_currency removes are removed, for the app as it stands.
AmountResolves(text) ==
    IF pc = "loaded"
    THEN IsFloatLiteral(SelectSeq(text, LAMBDA ch : IsDigit(ch) \/ ch = "." \/ ch = "-"))
    ELSE IsFloatLiteral(text)

\* the rows of the ledger table t whose date and amount both resolve
AdmissibleRows(t) ==
    {r \in 1..Len(t.data) : DateResolves(t.data[r][1]) /\ AmountResolves(t.data[r][2])}

Canonical(df) ==
    ~HasCol(df, <<"t","y","p","e">>) /\ ~HasCol(df, <<"d","e","b","i","t">>) /\ ~HasCol(df, <<"c","r","e","d","i","t">>)

\* the sign guard has run on a signed ledger without type, debit or credit
GuardStep == pc = "app_normalized" /\ pc' = "app_guarded" /\ Canonical(caller_df)

\* C10 as stated: the sign guard returns the amounts of every such ledger
\* unchanged, ledgers of one sign included.
C10_UnchangedAnySign ==
    [][GuardStep => Amounts(caller_df') = Amounts(caller_df)]_vars

\* the description of row r names an expense of the keyword list
NamesExpense(df, r) ==
    \E k \in ExpenseKeywords : Contains(LowerStr(StrOf(Col(df, <<"d","e","s","c","r","i","p","t","i","o","n">>)[r])), k)

\* C10 amended: the sign guard returns the amounts unchanged when the ledger
\* holds both a negative and a positive amount; otherwise every amount keeps
\* its magnitude and is negative when its description names an expense of
\* the keyword list, positive when not; and applying the guard twice equals
\* applying it once.
C10_UnchangedWhenMixed ==
    [][GuardStep =>
          /\ MixedSigns(caller_df) => Amounts(caller_df') = Amounts(caller_df)
          /\ ~MixedSigns(caller_df) =>
                \A r \in RowSet(caller_df) :
                    Amounts(caller_df')[r] =
                        IF NamesExpense(caller_df, r) THEN -Abs(Amounts(caller_df)[r])
                        ELSE Abs(Amounts(caller_df)[r])
          /\ AbsAll(Amounts(caller_df')) = AbsAll(Amounts(caller_df))
          /\ SignGuard(caller_df').df = caller_df']_vars

C10_Witness ==
    /\ pc = "app_guarded"
    /\ Canonical(caller_df)
    /\ NRows(caller_df) = 2
    /\ table \in LedgerTables
    /\ \A r \in 1..2 : Head(table.data[r][2]) = "-"
    /\ MixedSigns(caller_df)

\* ----------------------------------------------------- empty-ledger claim
\* the metrics call has returned or raised
MetricsCalled ==
    pc \in {"metrics_done", "metrics_raised", "cash_metrics_done", "cash_metrics_raised"}

\* a reported quotient that is the number zero (NaN is not)
IsZeroValue(v) == v # NaN /\ v.num = 0

\* every value of the snapshot r is zero or the engine's sentinel
ZeroOrSentinel(r) ==
    /\ r.cash_today = 0
    /\ r.kind = "business_metrics" =>
          /\ r.runway_months = Ratio(990, 10)
          /\ IsZeroValue(r.avg_daily_sales)
          /\ IsZeroValue(r.avg_daily_ad_spend)
          /\ IsZeroValue(r.avg_daily_fixed_cost)
          /\ IsZeroValue(r.return_rate)
          /\ IsZeroValue(r.ad_spend_pct)
          /\ IsZeroValue(r.avg_daily_outflow)
    /\ r.kind = "cash_metrics" =>
          /\ r.runway_days = [sentinel |-> "Cash Positive"]
          /\ IsZeroValue(r.ad_spend_pct)
          /\ IsZeroValue(r.return_rate)
          /\ r.expense_breakdown = << >>

\* C11: an empty ledger passed through the metrics computation yields
\* all-zero or sentinel values and never raises an exception.
C11_EmptyLedgerIsZeroOrSentinel ==
    (MetricsCalled /\ NRows(caller_df) = 0) =>
        /\ pc \in {"metrics_done", "cash_metrics_done"}
        /\ ZeroOrSentinel(result)

\* ------------------------------------------------- claims on the decisions
Decided == pc = "decided"

AdRisk == Line("Ad spend is consuming over 30% of revenue.", None)

HasLine(lines, l) == \E i \in 1..Len(lines) : lines[i] = l

\* the ad ratio of the snapshot, as a number, exceeds 30 / 100
AdRatioAboveThreshold ==
    /\ "ad_spend_pct" \in DOMAIN metrics
    /\ ~IsNa(metrics.ad_spend_pct)
    /\ metrics.ad_spend_pct.num * 100 > 30 * metrics.ad_spend_pct.den

\* C12: generate_decisions reports the advertising risk exactly when the
\* snapshot's ad ratio is strictly above 0.30; a ratio of exactly 0.30 does
\* not raise it, and the return rate and the runway play no part.
C12_AdRiskIffAboveThreshold ==
    Decided => (HasLine(decisions.risks, AdRisk) <=> AdRatioAboveThreshold)

\* a snapshot exactly at 0.30 whose other two rules fire, and no ad risk
C12_Witness ==
    /\ Decided
    /\ metrics.ad_spend_pct = Ratio(30, 100)
    /\ ReturnRuleFires(metrics)
    /\ RunwayRuleFires(metrics)
    /\ ~HasLine(decisions.risks, AdRisk)
    /\ Len(decisions.risks) = 2

\* the return rate of the snapshot, as a number, exceeds 15 / 100
ReturnRateAboveThreshold ==
    /\ "return_rate" \in DOMAIN metrics
    /\ ~IsNa(metrics.return_rate)
    /\ metrics.return_rate.num * 100 > 15 * metrics.return_rate.den

\* the runway of the snapshot is a number of months below 3
RunwayBelowThreshold ==
    /\ "runway_months" \in DOMAIN metrics
    /\ DOMAIN metrics.runway_months = {"num", "den"}
    /\ metrics.runway_months.num < 3 * metrics.runway_months.den

AnyRuleFired == AdRatioAboveThreshold \/ ReturnRateAboveThreshold \/ RunwayBelowThreshold

\* C13: when none of the three threshold rules fires, generate_decisions
\* returns no risk and the single maintain action; when one fires, the
\* maintain action is absent.  A ledger of inflows only, taken through
\* calculate_business_metrics, gets the maintain action alone.
C13_MaintainIffNoRule ==
    Decided =>
        /\ ~AnyRuleFired => (decisions.risks = << >> /\ decisions.actions = <<Maintain>>)
        /\ AnyRuleFired => (decisions.risks # << >> /\ ~HasLine(decisions.actions, Maintain))
        /\ NoOutflow(caller_df) => decisions = [risks |-> << >>, actions |-> <<Maintain>>]

\* an inflow-only ledger went through the two engines and was told to maintain
C13_Witness ==
    /\ Decided
    /\ NoOutflow(caller_df)
    /\ metrics.kind = "business_metrics"
    /\ metrics.runway_months = Ratio(990, 10)
    /\ decisions.actions = <<Maintain>>

\* a snapshot on which a rule fired, so the maintain action is absent
C13_RuleFiredWitness ==
    /\ Decided
    /\ AnyRuleFired
    /\ ~HasLine(decisions.actions, Maintain)

\* ----------------------------------------------- claims on the categorizers
Categorized == pc = "categorized"

\* ordered rules: the keywords of a rule and its category
Rule(words, category) == [words |-> words, category |-> category]

\* the category of the first rule from position i on that matches d
FirstMatchFrom(d, rules, i) ==
    Let({j \in i..Len(rules) : ContainsAny(d, rules[j].words)}, LAMBDA hits :
        IF hits = {} THEN "Other"
        ELSE rules[CHOOSE j \in hits : \A k \in hits : j <= k].category)

FirstMatch(d, rules) == FirstMatchFrom(d, rules, 1)

\* the rules of the expense breakdown and of the dashboard, in their order
ExpenseRules ==
    << Rule({<<"a","d","s">>, <<"f","a","c","e","b","o","o","k">>, <<"g","o","o","g","l","e">>, <<"m","e","t","a">>}, "Advertising"),
       Rule({<<"s","a","l","a","r","y">>, <<"w","a","g","e","s">>, <<"p","a","y","r","o","l","l">>}, "Salaries"),
       Rule({<<"r","e","n","t">>, <<"o","f","f","i","c","e">>, <<"l","e","a","s","e">>}, "Rent"),
       Rule({<<"s","o","f","t","w","a","r","e">>, <<"s","a","a","s">>, <<"t","o","o","l">>}, "Software") >>

DashboardRules ==
    << Rule({<<"a","d">>, <<"f","a","c","e","b","o","o","k">>, <<"g","o","o","g","l","e">>}, "Advertising"),
       Rule({<<"s","a","l","a","r","y">>}, "Salary"),
       Rule({<<"r","e","n","t">>}, "Rent") >>

\* the order stated: Advertising, Salary, Rent, Refund, else Other
RefundRule == Rule({<<"r","e","f","u","n","d">>, <<"r","e","t","u","r","n">>}, "Refund")
StatedExpenseRules == SubSeq(ExpenseRules, 1, 3) \o <<RefundRule>>
StatedDashboardRules == DashboardRules \o <<RefundRule>>

\* C14 as stated: each categorizer gives the category of the first matching
\* rule in the order Advertising, Salary, Rent, Refund, and Other when none
\* matches.
C14_FirstOfStatedOrder ==
    Categorized =>
        /\ result.expense_category
              = FirstMatch(LowerStr(result.description), StatedExpenseRules)
        /\ result.mapped_category
              = FirstMatch(LowerStr(result.description), StatedDashboardRules)

\* C14: each categorizer gives a description exactly one category, that of
\* the first rule of its own fixed order whose keyword occurs in the
\* lower-cased description, and Other when none does: classify_expense in
\* the order Advertising, Salaries, Rent, Software, map_category in the
\* order Advertising, Salary, Rent.  Neither has a Refund rule, so a
\* description matching several rules gets the earliest one's category and
\* one matching only "refund" is Other; the category is a function of the
\* description text.
C14_FirstOfCodeOrder ==
    Categorized =>
        /\ result.expense_category
              = FirstMatch(LowerStr(result.description), ExpenseRules)
        /\ result.mapped_category
              = FirstMatch(LowerStr(result.description), DashboardRules)
        /\ result.expense_category \in {"Advertising", "Salaries", "Rent", "Software", "Other"}
        /\ result.mapped_category \in {"Advertising", "Salary", "Rent", "Other"}
        /\ "Refund" \notin {result.expense_category, result.mapped_category}

\* "Facebook Ads Refund" matches the advertising rule and names a refund
C14_Witness ==
    /\ Categorized
    /\ result.description = <<"F","a","c","e","b","o","o","k"," ","A","d","s"," ","R","e","f","u","n","d">>
    /\ ContainsAny(LowerStr(result.description), RefundRule.words)
    /\ result.expense_category = "Advertising"
    /\ result.mapped_category = "Advertising"

\* ------------------------------------------------ claims on frame effects
\* a metrics engine was called on the ledger and returned
MetricsReturns ==
    /\ pc = "loaded"
    /\ pc' \in {"metrics_done", "cash_metrics_done"}

\* C15: when calculate_business_metrics or calculate_cash_metrics returns,
\* the caller's table has the column names, the row order and the cell
\* values it had before the call.
C15_MetricsLeaveLedgerUnchanged ==
    [][MetricsReturns => caller_df' = caller_df]_vars

====
